---- MODULE Spec2Model ----
(***************************************************************************)
(* Model of the agent reconciliation page                                  *)
(* (packages/web/app/reconciliation/agent/page.tsx): the session held in   *)
(* currentSession and the grouped view createGroupedData derives from it   *)
(* on every render (SpecProj), the operations of the page and the calls    *)
(* they make (Spec), and the document rejection queue (SpecQueue).         *)
(*                                                                         *)
(* Indexes are the 0-based indexes of the source; a TLA+ sequence holds    *)
(* the row of index i at position i + 1.                                   *)
(***************************************************************************)
EXTENDS Integers, Sequences, FiniteSets, Bags, TLC

VARIABLES
    currentSession,        \* [bank_data, gl_data, matches] (useState currentSession)
    rendered,              \* TRUE once the table body has been rendered
    grouped,               \* value returned by the createGroupedData call of the latest render
    renderThrew,           \* TRUE when the latest render of the table body raised a TypeError
    selectedMatch,         \* MatchDetails shown in the match modal, or Null
    showMatchModal,
    updatingMatches,       \* bank indexes with a status update being saved
    manualMatchMode,
    selectedBankEntry,     \* bank index, or NoEntry for null
    selectedGlEntries,     \* sequence of ledger indexes
    showExplanationModal,
    isCreatingManualMatch,
    requests,              \* bag of the HTTP calls that have not responded yet
    saveCount,             \* POST .../save calls made so far
    sessionId,             \* "" for null
    uploadedFiles,         \* [bank, gl]: a CSV file has been dropped
    showFileUpload,
    isLoading,
    agentMessage,          \* the message shown to the user, by its template
    searchingDocumentsFor, \* bank indexes with a document search running
    matchesWithDocuments,  \* bank indexes marked as having documents
    documentsByMatch,      \* bank index -> "absent", "empty" or "some" documents cached
    acknowledged,          \* changes whose save the service has answered ok (history)
    rejectionQueue,        \* sequence of [id, bankIndex, status]
    isProcessingQueue,
    processRuns,           \* set of the running processQueue calls: [items, pos, pc]
    removalTimers,         \* setTimeout(..., 2000) callbacks not yet fired
    selectedDocument,      \* TRUE when a document is open in the side panel
    showDocumentSidePanel,
    rejectionComment,      \* TRUE when the comment has non-blank text
    rejectionCount,        \* rejections queued so far; numbers the ids
    showDocuments,         \* the Matching Documents modal is shown
    sessionFile,           \* session_{id}.json of the manual-match route
    documentsDir,          \* files written to the documents directory: [id, i]
    handlers,              \* running route handlers, each at its await
    answers,               \* responses the routes have sent
    postCount              \* requests the routes have received; numbers them

sessionVars == <<currentSession, rendered, grouped, renderThrew>>
modalVars == <<selectedMatch, showMatchModal>>
manualVars == <<manualMatchMode, selectedBankEntry, selectedGlEntries,
                showExplanationModal, isCreatingManualMatch>>
startVars == <<sessionId, uploadedFiles, showFileUpload, isLoading>>
docVars == <<searchingDocumentsFor, matchesWithDocuments, documentsByMatch>>
panelVars == <<selectedDocument, showDocumentSidePanel, rejectionComment, showDocuments>>
queueVars == <<rejectionQueue, isProcessingQueue, processRuns, removalTimers, rejectionCount>>
callVars == <<requests, saveCount>>
pageVars == <<sessionVars, modalVars, manualVars, updatingMatches, callVars, startVars,
              agentMessage, docVars, acknowledged, panelVars, queueVars>>
routeVars == <<sessionFile, documentsDir, handlers, answers, postCount>>
vars == <<pageVars, routeVars>>

----------------------------------------------------------------------------
(* Bounds of the model *)

MaxBank == 2          \* bank rows in the match-coverage inputs
MaxGl == 2            \* ledger rows
MaxMatches == 2       \* records in the match list
MaxGlPerMatch == 2    \* length of one gl_indexes
MaxSortRows == 3      \* bank rows in the date-ordering inputs
MaxRecords == 2       \* createManualMatch is not started on a longer match list
MaxServerGl == 1      \* length of one gl_indexes in a session of the service
MaxInFlight == 2      \* calls awaiting their response at one time
MaxSaves == 2         \* POST .../save calls in one run of the page
MaxRejections == 3    \* document rejections queued in one run of the page
MaxRouteBank == 2     \* bank indexes in the requests of the manual-match route
MaxPosts == 3         \* requests to the manual-match route
MaxFiles == 2         \* files in one request to the documents route
MaxUploads == 2       \* requests to the documents route

----------------------------------------------------------------------------
(* Rows and dates.  Only the Date/date field of a row takes part in the   *)
(* projection; a row is modelled by that field: absent ("none"), a string *)
(* Date cannot parse ("bad"), or a parseable date with time value t.      *)

NoDate == [kind |-> "none", t |-> 0]
BadDate == [kind |-> "bad", t |-> 0]
Dated(t) == [kind |-> "ok", t |-> t]
Undefined == [kind |-> "undefined", t |-> 0]

NaN == [nan |-> TRUE, t |-> 0]
Time(t) == [nan |-> FALSE, t |-> t]

\* entry.Date || entry.date ? new Date(...) : new Date(0), then getTime()
NewDate(row) ==
    IF row.kind = "none" THEN Time(0)
    ELSE IF row.kind = "bad" THEN NaN
    ELSE Time(row.t)

\* (a, b) => a.date.getTime() - b.date.getTime(); Array.prototype.sort reads
\* a NaN result of the comparator as +0
CompareFn(a, b) ==
    IF a.date.nan \/ b.date.nan THEN 0 ELSE a.date.t - b.date.t

Sign(v) == IF v < 0 THEN -1 ELSE IF v > 0 THEN 1 ELSE 0

\* ECMAScript "consistent comparator" for the elements of s
ConsistentComparator(s) ==
    \A i, j, k \in 1..Len(s) :
        /\ Sign(CompareFn(s[i], s[j])) = -Sign(CompareFn(s[j], s[i]))
        /\ (Sign(CompareFn(s[i], s[j])) = Sign(CompareFn(s[j], s[k])))
              => (Sign(CompareFn(s[i], s[k])) = Sign(CompareFn(s[i], s[j])))

\* Array.prototype.sort is stable for a consistent comparator.  For an
\* inconsistent one the order is implementation-defined; the model follows
\* the algorithm of V8 (Chrome, Edge, Node) for arrays shorter than 32
\* elements: the leading run is found (and reversed when it is strictly
\* descending), the remaining elements are placed by binary insertion.

Reverse(s) == [i \in 1..Len(s) |-> s[Len(s) + 1 - i]]

\* position of the last element of the run that starts at s[1], scanning on
\* from position idx
RECURSIVE RunEnd(_, _, _)
RunEnd(s, idx, isDescending) ==
    IF idx > Len(s) THEN Len(s)
    ELSE LET order == CompareFn(s[idx], s[idx - 1])
         IN  IF (isDescending /\ order >= 0) \/ (~isDescending /\ order < 0)
             THEN idx - 1
             ELSE RunEnd(s, idx + 1, isDescending)

CountAndMakeRun(s) ==
    LET isDescending == CompareFn(s[2], s[1]) < 0
        runLength == RunEnd(s, 3, isDescending)
    IN  [list |-> IF isDescending
                  THEN Reverse(SubSeq(s, 1, runLength)) \o SubSeq(s, runLength + 1, Len(s))
                  ELSE s,
         runLength |-> runLength]

\* number of elements of s[1..right] that stay in front of pivot
RECURSIVE BinarySearch(_, _, _, _)
BinarySearch(s, pivot, left, right) ==
    IF left >= right THEN left
    ELSE LET mid == left + ((right - left) \div 2)
         IN  IF CompareFn(pivot, s[mid + 1]) < 0
             THEN BinarySearch(s, pivot, left, mid)
             ELSE BinarySearch(s, pivot, mid + 1, right)

\* s[1..start] is sorted; the elements behind it are inserted one by one
RECURSIVE BinaryInsertionSort(_, _)
BinaryInsertionSort(s, start) ==
    IF start >= Len(s) THEN s
    ELSE LET pivot == s[start + 1]
             left == BinarySearch(s, pivot, 0, start)
         IN  BinaryInsertionSort(
                 SubSeq(s, 1, left) \o <<pivot>> \o SubSeq(s, left + 1, start)
                     \o SubSeq(s, start + 2, Len(s)),
                 start + 1)

\* list.sort((a, b) => a.date.getTime() - b.date.getTime())
Sort(s) ==
    IF Len(s) < 2 THEN s
    ELSE LET run == CountAndMakeRun(s)
         IN  BinaryInsertionSort(run.list, run.runLength)

Range(s) == {s[i] : i \in 1..Len(s)}

BoundedSeq(S, n) == UNION {[1..k -> S] : k \in 0..n}

----------------------------------------------------------------------------
(* Match records and their lookup *)

Null == [bankIndex |-> -1, glIndexes |-> <<>>, confidence |-> 0, status |-> "null"]

MatchDetails(m) ==
    [bankIndex |-> m.bank_index, glIndexes |-> m.gl_indexes,
     confidence |-> m.confidence, status |-> m.status]

Includes(seq, x) == \E i \in 1..Len(seq) : seq[i] = x

\* (variant of getMatchForBankEntry that takes the first record of the bank index)
getMatchForBankEntry_First(session, bankIndex) ==
    LET allMatches == SelectSeq(session.matches, LAMBDA m : m.bank_index = bankIndex)
    IN  IF Len(allMatches) > 0 THEN MatchDetails(allMatches[1]) ELSE Null

\* first non-rejected record of the bank index, else its first record
getMatchForBankEntry(session, bankIndex) ==
    LET allMatches == SelectSeq(session.matches, LAMBDA m : m.bank_index = bankIndex)
        live == SelectSeq(allMatches, LAMBDA m : m.status # "rejected")
    IN  IF Len(live) > 0 THEN MatchDetails(live[1])
        ELSE IF Len(allMatches) > 0 THEN MatchDetails(allMatches[1])
        ELSE Null

\* first record, of any status, whose gl_indexes holds the ledger index
getMatchForGLEntry(session, glIndex) ==
    LET hits == SelectSeq(session.matches, LAMBDA m : Includes(m.gl_indexes, glIndex))
    IN  IF Len(hits) > 0 THEN MatchDetails(hits[1]) ELSE Null

\* currentSession.gl_data[glIndex]
GlData(session, glIndex) ==
    IF glIndex \in 0..(Len(session.gl_data) - 1)
    THEN session.gl_data[glIndex + 1] ELSE Undefined

----------------------------------------------------------------------------
(* createGroupedData *)

\* bank_data.map(...) before the sort
bankTransactions(session) ==
    [i \in 1..Len(session.bank_data) |->
        [bankEntry |-> session.bank_data[i],
         bankIndex |-> i - 1,
         match |-> getMatchForBankEntry(session, i - 1),
         date |-> NewDate(session.bank_data[i])]]

\* the match of a bank transaction nests its ledger rows
NestsLedgerRows(match) ==
    /\ match # Null
    /\ Len(match.glIndexes) > 0
    /\ match.status # "rejected"

\* (variant of NestedGlEntries that lists the entries in ascending index order)
NestedGlEntries_ByIndex(session, match) ==
    IF NestsLedgerRows(match)
    THEN LET byIndex == SelectSeq([g \in 1..(MaxGl + 1) |-> g - 1],
                                  LAMBDA g : Includes(match.glIndexes, g))
         IN  [k \in 1..Len(byIndex) |->
                [glIndex |-> byIndex[k],
                 data |-> GlData(session, byIndex[k]),
                 match |-> getMatchForGLEntry(session, byIndex[k])]]
    ELSE <<>>

\* glIndexes.forEach(...): one entry per listed index, in the listed order
NestedGlEntries(session, match) ==
    IF NestsLedgerRows(match)
    THEN [k \in 1..Len(match.glIndexes) |->
            [glIndex |-> match.glIndexes[k],
             data |-> GlData(session, match.glIndexes[k]),
             match |-> getMatchForGLEntry(session, match.glIndexes[k])]]
    ELSE <<>>

\* (variant of GroupStyle whose threshold is strict)
GroupStyle_Above(match) ==
    IF NestsLedgerRows(match)
    THEN IF match.status = "approved" THEN "approved"
         ELSE IF match.confidence > 70 THEN "high-confidence"
         ELSE "low-confidence"
    ELSE "no-match"

\* match.confidence >= 0.7, with confidences counted in hundredths
GroupStyle(match) ==
    IF NestsLedgerRows(match)
    THEN IF match.status = "approved" THEN "approved"
         ELSE IF match.confidence >= 70 THEN "high-confidence"
         ELSE "low-confidence"
    ELSE "no-match"

\* one group per (sorted) bank transaction
Group(session, bt) ==
    [bankEntry |-> bt.bankEntry,
     bankIndex |-> bt.bankIndex,
     bankMatch |-> bt.match,
     glEntries |-> NestedGlEntries(session, bt.match),
     groupStyle |-> GroupStyle(bt.match),
     isUnmatchedGl |-> FALSE,
     isRejected |-> (bt.match.status = "rejected"),
     isUnmatchedBank |-> FALSE,
     date |-> bt.date]

Groups(session, sorted) == [i \in 1..Len(sorted) |-> Group(session, sorted[i])]

activeGroups(groups) ==
    SelectSeq(groups, LAMBDA g : ~g.isRejected /\ Len(g.glEntries) > 0)

rejectedGroups(groups) == SelectSeq(groups, LAMBDA g : g.isRejected)

\* (variant of unmatchedBankGroups that keeps only rows with a match record)
unmatchedBankGroups_WithRecord(groups) ==
    SelectSeq(groups, LAMBDA g : ~g.isRejected /\ Len(g.glEntries) = 0 /\ g.bankMatch # Null)

unmatchedBankGroups(groups) ==
    SelectSeq(groups, LAMBDA g : ~g.isRejected /\ Len(g.glEntries) = 0)

\* (variant of Counted that lets rejected records count)
Counted_RejectedCount(session) ==
    {m \in Range(session.matches) : Len(m.gl_indexes) > 0}

\* records that count: non-empty gl_indexes and not rejected
Counted(session) ==
    {m \in Range(session.matches) : Len(m.gl_indexes) > 0 /\ m.status # "rejected"}

matchedGlIndexes(session) == UNION {Range(m.gl_indexes) : m \in Counted(session)}

matchedBankIndexes(session) == {m.bank_index : m \in Counted(session)}

\* gl_data.map(...).filter(...) and its formatting as groups, before the sort
unmatchedGlEntriesFormatted(session) ==
    LET all == [i \in 1..Len(session.gl_data) |->
                  [bankEntry |-> Undefined,
                   bankIndex |-> -1,
                   bankMatch |-> Null,
                   glEntries |-> <<[glIndex |-> i - 1,
                                    data |-> session.gl_data[i],
                                    match |-> Null]>>,
                   groupStyle |-> "no-match",
                   isUnmatchedGl |-> TRUE,
                   isRejected |-> FALSE,
                   isUnmatchedBank |-> FALSE,
                   date |-> NewDate(session.gl_data[i])]]
    IN  SelectSeq(all, LAMBDA g : g.glEntries[1].glIndex \notin matchedGlIndexes(session))

\* [...rejectedGroups, ...unmatchedBankGroups].filter(...).map(...), before the sort
unmatchedBankEntries(session, groups) ==
    LET allUnmatchedGroups == rejectedGroups(groups) \o unmatchedBankGroups(groups)
        kept == SelectSeq(allUnmatchedGroups,
                          LAMBDA g : g.bankIndex \notin matchedBankIndexes(session))
    IN  [i \in 1..Len(kept) |->
            [kept[i] EXCEPT !.isUnmatchedBank = TRUE, !.date = NewDate(kept[i].bankEntry)]]

EmptyResult ==
    [empty |-> TRUE, activeGroups |-> <<>>, bankEntries |-> <<>>, glEntries |-> <<>>]

\* the early return, or [...activeGroups, unmatchedEntriesData]
createGroupedData(session) ==
    IF Len(session.bank_data) = 0 \/ Len(session.gl_data) = 0
    THEN EmptyResult
    ELSE LET groups == Groups(session, Sort(bankTransactions(session)))
         IN  [empty |-> FALSE,
              activeGroups |-> activeGroups(groups),
              bankEntries |-> Sort(unmatchedBankEntries(session, groups)),
              glEntries |-> Sort(unmatchedGlEntriesFormatted(session))]

\* (variant of SessionAfterCall in which the sort reorders bank_data itself)
SessionAfterCall_SortInPlace(session) ==
    IF Len(session.bank_data) = 0 \/ Len(session.gl_data) = 0 THEN session
    ELSE [session EXCEPT !.bank_data =
            [i \in 1..Len(session.bank_data) |->
                Sort(bankTransactions(session))[i].bankEntry]]

\* the session after a call of createGroupedData: the function only reads
\* bank_data, gl_data and matches; map and filter build new arrays and the
\* three sorts reorder those
SessionAfterCall(session) == session

\* the table body dereferences glEntry.data of every nested entry of a
\* matched group (glEntry.data["Date (MM/DD/YYYY)"]): a TypeError when the
\* data is undefined
RenderThrows(out) ==
    \E i \in 1..Len(out.activeGroups) :
        \E k \in 1..Len(out.activeGroups[i].glEntries) :
            out.activeGroups[i].glEntries[k].data = Undefined

\* cells of a row of the unmatched section
EmptyCell == [shown |-> FALSE, index |-> 0]
Cell(index) == [shown |-> TRUE, index |-> index]

Max(a, b) == IF a > b THEN a ELSE b

\* the rows the table body makes of the unmatched section: row i pairs
\* bankEntries[i] with glEntries[i]?.glEntries[0]
UnmatchedRows(out) ==
    [i \in 1..Max(Len(out.bankEntries), Len(out.glEntries)) |->
        [bank |-> IF i <= Len(out.bankEntries)
                  THEN Cell(out.bankEntries[i].bankIndex) ELSE EmptyCell,
         gl |-> IF i <= Len(out.glEntries)
                THEN Cell(out.glEntries[i].glEntries[1].glIndex) ELSE EmptyCell]]

----------------------------------------------------------------------------
(* Sessions the page can hold.  bank_data, gl_data and the match list come *)
(* from the reconciliation service (GET /reconcile/session/{id}).          *)

Statuses == {"pending", "approved", "rejected"}

\* confidences in hundredths: below, at and above the threshold 0.7
Confidences == {69, 70, 95}

MatchRecords ==
    [bank_index : 0..(MaxBank - 1),
     gl_indexes : BoundedSeq(0..(MaxGl - 1), MaxGlPerMatch),
     confidence : {95},
     status : Statuses]

Rows(n, row) == [i \in 1..n |-> row]

\* records that list at most one ledger index
ShortRecords == {r \in MatchRecords : Len(r.gl_indexes) <= 1}

\* match lists: up to MaxMatches short records, or one record of any length
\* alone, before or after one short record
MatchLists ==
    BoundedSeq(ShortRecords, MaxMatches)
    \cup {<<r>> : r \in MatchRecords}
    \cup {<<r, s>> : r \in MatchRecords, s \in ShortRecords}
    \cup {<<s, r>> : r \in MatchRecords, s \in ShortRecords}

\* match lists over rows that all carry the same date
CoverSessions ==
    {[bank_data |-> Rows(n, Dated(1)), gl_data |-> Rows(m, Dated(1)), matches |-> ms] :
        n \in 1..MaxBank, m \in 0..MaxGl, ms \in MatchLists}

BankRows == {NoDate, BadDate, Dated(-1), Dated(1), Dated(2)}

\* the pending match of bank row b with ledger row b
PairMatch(b) ==
    [bank_index |-> b, gl_indexes |-> <<b>>, confidence |-> 95, status |-> "pending"]

RECURSIVE PairMatches(_, _)
PairMatches(B, n) ==
    IF n = 0 THEN <<>>
    ELSE PairMatches(B, n - 1) \o (IF (n - 1) \in B THEN <<PairMatch(n - 1)>> ELSE <<>>)

\* rows of every date shape, each bank row matched to the ledger row of its
\* own index or left unmatched
SortSessions ==
    UNION {{[bank_data |-> rows, gl_data |-> rows, matches |-> PairMatches(B, Len(rows))] :
              B \in SUBSET (0..(Len(rows) - 1))} :
           rows \in BoundedSeq(BankRows, MaxSortRows)}

\* records of bank row 0 of every status and confidence, with and without
\* a ledger row
StyleRecords ==
    [bank_index : {0}, gl_indexes : {<<>>, <<0>>}, confidence : Confidences,
     status : Statuses]

\* one bank row and one ledger row with one or two records of the bank row
StyleSessions ==
    {[bank_data |-> Rows(1, Dated(1)), gl_data |-> Rows(1, Dated(1)), matches |-> ms] :
        ms \in {<<r>> : r \in StyleRecords} \cup (StyleRecords \X StyleRecords)}

Sessions == CoverSessions \cup SortSessions \cup StyleSessions

NotRendered == EmptyResult

NoEntry == -1

\* currentSession before a session exists (null; set together with sessionId)
NoSessionYet == [bank_data |-> <<>>, gl_data |-> <<>>, matches |-> <<>>]

BankIndexes == 0..(MaxBank - 1)

\* session_{sessionId}.json when it is missing
NoSessionFile == [exists |-> FALSE, bank_matches |-> <<>>, manual_matches_count |-> 0]

\* new Map()
NoDocuments == [b \in BankIndexes |-> "absent"]

\* the templates of agentMessage that report a failure
ErrorMessages == {"startError", "updateError", "documentsError", "manualError", "rejectError"}

\* a call that carries sessions (POST .../save)
Save(kind, bankIndex, status, updatedSession, originalSession) ==
    [kind |-> kind, bankIndex |-> bankIndex, status |-> status,
     updatedSession |-> updatedSession, originalSession |-> originalSession]

\* any other call
Call(kind, bankIndex) == Save(kind, bankIndex, "", NoSessionYet, NoSessionYet)

\* what a save asks the service to record: the status of the records of a
\* bank index, or one more record
Change(req) ==
    [kind |-> req.kind, bankIndex |-> req.bankIndex, status |-> req.status,
     glIndexes |-> IF req.kind = "manual"
                   THEN req.updatedSession.matches[Len(req.updatedSession.matches)].gl_indexes
                   ELSE <<>>]

Sent(req) == requests (+) SetToBag({req})
Answered(req) == requests (-) SetToBag({req})
Awaiting == BagToSet(requests)

\* no request has reached the routes
RouteIdle ==
    /\ sessionFile = NoSessionFile
    /\ documentsDir = {}
    /\ handlers = {}
    /\ answers = {}
    /\ postCount = 0

\* the values the useState cells of the table, the modals and the manual
\* match mode start with
PageInit ==
    /\ rendered = FALSE
    /\ grouped = NotRendered
    /\ renderThrew = FALSE
    /\ selectedMatch = Null
    /\ showMatchModal = FALSE
    /\ updatingMatches = {}
    /\ manualMatchMode = FALSE
    /\ selectedBankEntry = NoEntry
    /\ selectedGlEntries = <<>>
    /\ showExplanationModal = FALSE
    /\ isCreatingManualMatch = FALSE
    /\ requests = EmptyBag
    /\ saveCount = 0
    /\ searchingDocumentsFor = {}
    /\ matchesWithDocuments = {}
    /\ documentsByMatch = NoDocuments
    /\ acknowledged = {}
    /\ selectedDocument = FALSE
    /\ showDocumentSidePanel = FALSE
    /\ rejectionComment = FALSE
    /\ showDocuments = FALSE
    /\ rejectionQueue = <<>>
    /\ isProcessingQueue = FALSE
    /\ processRuns = {}
    /\ removalTimers = 0
    /\ rejectionCount = 0

\* startReconciliation has run to its end
Loaded ==
    /\ sessionId = "s1"
    /\ uploadedFiles = [bank |-> TRUE, gl |-> TRUE]
    /\ showFileUpload = FALSE
    /\ isLoading = FALSE

InitProj ==
    /\ currentSession \in Sessions
    /\ PageInit
    /\ Loaded
    /\ agentMessage = "analyzed"
    /\ RouteIdle

\* what a render does with the session it is given: the table, mounted only
\* for a non-empty bank_data, calls createGroupedData() and maps the groups
\* to rows.  (While isLoading is set bank_data is still empty.)
Rerender(session) ==
    IF Len(session.bank_data) > 0
    THEN /\ rendered' = TRUE
         /\ grouped' = createGroupedData(session)
         /\ renderThrew' = RenderThrows(createGroupedData(session))
    ELSE UNCHANGED <<rendered, grouped, renderThrew>>

\* what the operations of the table and its modals leave alone
offTable == <<startVars, docVars, acknowledged, panelVars, queueVars>>

\* a render of the page with no change of the session
Render ==
    /\ ~renderThrew
    /\ Len(currentSession.bank_data) > 0
    /\ Rerender(currentSession)
    /\ currentSession' = SessionAfterCall(currentSession)
    /\ UNCHANGED <<routeVars, modalVars, manualVars, updatingMatches, callVars, agentMessage, offTable>>

NextProj == Render

SpecProj == InitProj /\ [][NextProj]_vars

----------------------------------------------------------------------------
(* Sessions as the reconciliation service hands them out after matching:   *)
(* at most one record per bank row, all pending, over ledger indexes that  *)
(* exist, each claimed by one record at most; a record may have an empty   *)
(* gl_indexes.                                                             *)

NoRepeat(seq) == \A i, j \in 1..Len(seq) : seq[i] = seq[j] => i = j

ServerRecords(b, m) ==
    {r \in [bank_index : {b},
            gl_indexes : BoundedSeq(0..(m - 1), MaxServerGl),
            confidence : {95},
            status : {"pending"}] : NoRepeat(r.gl_indexes)}

\* the match lists over bank rows 0..n-1, in the order of the bank rows
RECURSIVE ServerMatches(_, _)
ServerMatches(n, m) ==
    IF n = 0 THEN {<<>>}
    ELSE LET shorter == ServerMatches(n - 1, m)
         IN  shorter \cup
             UNION {{Append(ms, r) :
                        r \in {x \in ServerRecords(n - 1, m) :
                                 \A i \in 1..Len(ms) :
                                     Range(ms[i].gl_indexes) \cap Range(x.gl_indexes) = {}}} :
                    ms \in shorter}

ServerSessions ==
    UNION {{[bank_data |-> Rows(n, Dated(1)), gl_data |-> Rows(m, Dated(1)), matches |-> ms] :
              ms \in ServerMatches(n, m)} :
           n \in 1..MaxBank, m \in 1..MaxGl}

\* the page as constructed: no session, the file upload section shown
PageConstructed ==
    /\ currentSession = NoSessionYet
    /\ sessionId = ""
    /\ uploadedFiles = [bank |-> FALSE, gl |-> FALSE]
    /\ showFileUpload = TRUE
    /\ isLoading = FALSE
    /\ agentMessage = ""
    /\ PageInit

Init == PageConstructed /\ RouteIdle

----------------------------------------------------------------------------
(* Starting a reconciliation *)

FileTypes == {"bank", "gl"}

\* a CSV file is dropped on one of the two drop zones
onDrop(fileType) ==
    /\ showFileUpload
    /\ ~uploadedFiles[fileType]
    /\ uploadedFiles' = [uploadedFiles EXCEPT ![fileType] = TRUE]
    /\ UNCHANGED <<routeVars, sessionVars, modalVars, manualVars, updatingMatches, callVars,
                   sessionId, showFileUpload, isLoading, agentMessage,
                   docVars, acknowledged, panelVars, queueVars>>

clearFile(fileType) ==
    /\ showFileUpload
    /\ uploadedFiles[fileType]
    /\ uploadedFiles' = [uploadedFiles EXCEPT ![fileType] = FALSE]
    /\ UNCHANGED <<routeVars, sessionVars, modalVars, manualVars, updatingMatches, callVars,
                   sessionId, showFileUpload, isLoading, agentMessage,
                   docVars, acknowledged, panelVars, queueVars>>

\* the Start AI Reconciliation button, shown once both files are there:
\* startReconciliation up to the await of POST /api/reconcile
startReconciliation ==
    /\ showFileUpload
    /\ uploadedFiles.bank /\ uploadedFiles.gl
    /\ isLoading' = TRUE
    /\ showFileUpload' = FALSE
    /\ requests' = Sent(Call("reconcile", NoEntry))
    /\ UNCHANGED <<routeVars, saveCount, sessionVars, modalVars, manualVars, updatingMatches,
                   sessionId, uploadedFiles, agentMessage,
                   docVars, acknowledged, panelVars, queueVars>>

\* POST /api/reconcile answered ok with the matches ms: the session is set
\* with empty bank_data and gl_data and fetchSessionDetails is awaited; the
\* answer to come (the data the service holds) is carried by the call
startReconciliationOk(data) ==
    /\ Call("reconcile", NoEntry) \in Awaiting
    /\ data \in ServerSessions
    /\ sessionId' = "s1"
    /\ currentSession' = [NoSessionYet EXCEPT !.matches = data.matches]
    /\ requests' = Answered(Call("reconcile", NoEntry))
                      (+) SetToBag({Save("details", NoEntry, "", data, NoSessionYet)})
    /\ Rerender(currentSession')
    /\ UNCHANGED <<routeVars, saveCount, modalVars, manualVars, updatingMatches,
                   uploadedFiles, showFileUpload, isLoading, agentMessage,
                   docVars, acknowledged, panelVars, queueVars>>

\* POST /api/reconcile failed: the catch of startReconciliation
startReconciliationFailed ==
    /\ Call("reconcile", NoEntry) \in Awaiting
    /\ requests' = Answered(Call("reconcile", NoEntry))
    /\ agentMessage' = "startError"
    /\ isLoading' = FALSE
    /\ UNCHANGED <<routeVars, saveCount, sessionVars, modalVars, manualVars, updatingMatches,
                   sessionId, uploadedFiles, showFileUpload,
                   docVars, acknowledged, panelVars, queueVars>>

\* GET /api/reconcile/session/{id} answered ok: fetchSessionDetails fills the
\* session, then startReconciliation reports the matches found
fetchSessionDetailsOk(req) ==
    /\ req \in Awaiting /\ req.kind = "details"
    /\ requests' = Answered(req)
    /\ currentSession' = [currentSession EXCEPT
                             !.bank_data = req.updatedSession.bank_data,
                             !.gl_data = req.updatedSession.gl_data,
                             !.matches = req.updatedSession.matches]
    /\ agentMessage' = "analyzed"
    /\ isLoading' = FALSE
    /\ Rerender(currentSession')
    /\ UNCHANGED <<routeVars, saveCount, modalVars, manualVars, updatingMatches,
                   sessionId, uploadedFiles, showFileUpload,
                   docVars, acknowledged, panelVars, queueVars>>

\* the request failed: fetchSessionDetails logs the failure and returns, and
\* startReconciliation goes on to report the matches found
fetchSessionDetailsFailed(req) ==
    /\ req \in Awaiting /\ req.kind = "details"
    /\ requests' = Answered(req)
    /\ agentMessage' = "analyzed"
    /\ isLoading' = FALSE
    /\ Rerender(currentSession)
    /\ UNCHANGED <<routeVars, saveCount, currentSession, modalVars, manualVars, updatingMatches,
                   sessionId, uploadedFiles, showFileUpload,
                   docVars, acknowledged, panelVars, queueVars>>

----------------------------------------------------------------------------
(* The match modal and updateMatchStatus *)

Mounted == rendered /\ ~renderThrew

\* a modal covers the page
MatchModalOpen == showMatchModal /\ selectedMatch # Null
Overlay ==
    \/ MatchModalOpen \/ showExplanationModal \/ showDocuments
    \/ (showDocumentSidePanel /\ selectedDocument)

\* click on a row of a matched group
handleCellClick(i) ==
    /\ Mounted /\ ~Overlay
    /\ i \in 1..Len(grouped.activeGroups)
    /\ grouped.activeGroups[i].bankMatch # Null
    /\ grouped.activeGroups[i].bankMatch.bankIndex \notin updatingMatches
    /\ selectedMatch' = grouped.activeGroups[i].bankMatch
    /\ showMatchModal' = TRUE
    /\ Rerender(currentSession)
    /\ UNCHANGED <<routeVars, currentSession, manualVars, updatingMatches, callVars, agentMessage, offTable>>

\* the close button, Cancel, or the Escape key
CloseMatchModal ==
    /\ Mounted /\ MatchModalOpen
    /\ showMatchModal' = FALSE
    /\ selectedMatch' = Null
    /\ Rerender(currentSession)
    /\ UNCHANGED <<routeVars, currentSession, manualVars, updatingMatches, callVars, agentMessage, offTable>>

\* click on the backdrop of the modal
DismissMatchModal ==
    /\ Mounted /\ MatchModalOpen
    /\ showMatchModal' = FALSE
    /\ Rerender(currentSession)
    /\ UNCHANGED <<routeVars, currentSession, selectedMatch, manualVars, updatingMatches, callVars,
                   agentMessage, offTable>>

\* matches.map(...): every record of the bank index gets the status
WithStatus_All(session, bankIndex, status) ==
    [session EXCEPT !.matches =
        [i \in 1..Len(session.matches) |-> [session.matches[i] EXCEPT !.status = status]]]

WithStatus(session, bankIndex, status) ==
    [session EXCEPT !.matches =
        [i \in 1..Len(session.matches) |->
            IF session.matches[i].bank_index = bankIndex
            THEN [session.matches[i] EXCEPT !.status = status]
            ELSE session.matches[i]]]

\* Approve / Reject in the modal: updateMatchStatus up to the await of the save
updateMatchStatus(status) ==
    /\ Mounted /\ MatchModalOpen /\ ~showExplanationModal
    /\ selectedMatch.status = "pending"
    /\ Len(selectedMatch.glIndexes) > 0
    /\ selectedMatch.bankIndex \notin updatingMatches
    /\ status \in {"approved", "rejected"}
    /\ BagCardinality(requests) < MaxInFlight
    /\ saveCount < MaxSaves
    /\ updatingMatches' = updatingMatches \cup {selectedMatch.bankIndex}
    /\ currentSession' = WithStatus(currentSession, selectedMatch.bankIndex, status)
    /\ requests' = Sent(Save("update", selectedMatch.bankIndex, status,
                             WithStatus(currentSession, selectedMatch.bankIndex, status),
                             currentSession))
    /\ saveCount' = saveCount + 1
    /\ Rerender(currentSession')
    /\ UNCHANGED <<routeVars, modalVars, manualVars, agentMessage, offTable>>

\* startDocumentSearch up to the await of the documents of the match
startDocumentSearch(bankIndex, awaiting) ==
    /\ searchingDocumentsFor' = searchingDocumentsFor \cup {bankIndex}
    /\ agentMessage' = "finding"
    /\ requests' = awaiting (+) SetToBag({Call("documents", bankIndex)})
    /\ UNCHANGED <<matchesWithDocuments, documentsByMatch>>

\* the rest of updateMatchStatus after try/catch/finally: the document
\* search of an approval, whose message replaces the one just set
AfterUpdate(req, message) ==
    IF req.status = "approved"
    THEN startDocumentSearch(req.bankIndex, Answered(req))
    ELSE /\ agentMessage' = message
         /\ requests' = Answered(req)
         /\ UNCHANGED docVars

\* newSet.delete(bankIndex) of the finally of updateMatchStatus
Removed_None(prev, bankIndex) == prev

Removed(prev, bankIndex) == prev \ {bankIndex}

\* the save answered ok
updateMatchStatusSaved(req) ==
    /\ ~renderThrew
    /\ req \in Awaiting /\ req.kind = "update"
    /\ showMatchModal' = FALSE
    /\ selectedMatch' = Null
    /\ updatingMatches' = Removed(updatingMatches, req.bankIndex)
    /\ AfterUpdate(req, "updated")
    /\ acknowledged' = acknowledged \cup {Change(req)}
    /\ Rerender(currentSession)
    /\ UNCHANGED <<routeVars, saveCount, currentSession, manualVars, startVars, panelVars, queueVars>>

\* setCurrentSession(currentSession) in the catch of updateMatchStatus: the
\* session captured when the call began
Reverted_IfCurrent(session, req) ==
    IF session = req.updatedSession THEN req.originalSession ELSE session

Reverted(session, req) == req.originalSession

\* the save failed: the session captured at the start is put back
updateMatchStatusFailed(req) ==
    /\ ~renderThrew
    /\ req \in Awaiting /\ req.kind = "update"
    /\ currentSession' = Reverted(currentSession, req)
    /\ updatingMatches' = Removed(updatingMatches, req.bankIndex)
    /\ AfterUpdate(req, "updateError")
    /\ Rerender(currentSession')
    /\ UNCHANGED <<routeVars, saveCount, modalVars, manualVars, startVars, acknowledged, panelVars, queueVars>>

\* GET .../match/{bankIndex}/documents answered ok with documents:
\* fetchMatchingDocuments, then the rest of startDocumentSearch
fetchMatchingDocumentsFound(req) ==
    /\ ~renderThrew
    /\ req \in Awaiting /\ req.kind = "documents"
    /\ requests' = Answered(req)
    /\ documentsByMatch' = [documentsByMatch EXCEPT ![req.bankIndex] = "some"]
    /\ matchesWithDocuments' = matchesWithDocuments \cup {req.bankIndex}
    /\ agentMessage' = "found"
    /\ searchingDocumentsFor' = searchingDocumentsFor \ {req.bankIndex}
    /\ Rerender(currentSession)
    /\ UNCHANGED <<routeVars, saveCount, currentSession, modalVars, manualVars, updatingMatches,
                   startVars, acknowledged, panelVars, queueVars>>

\* answered ok with no document
fetchMatchingDocumentsEmpty(req) ==
    /\ ~renderThrew
    /\ req \in Awaiting /\ req.kind = "documents"
    /\ requests' = Answered(req)
    /\ documentsByMatch' = [documentsByMatch EXCEPT ![req.bankIndex] = "empty"]
    /\ agentMessage' = "noDocuments"
    /\ searchingDocumentsFor' = searchingDocumentsFor \ {req.bankIndex}
    /\ Rerender(currentSession)
    /\ UNCHANGED <<routeVars, saveCount, currentSession, modalVars, manualVars, updatingMatches,
                   startVars, matchesWithDocuments, acknowledged, panelVars, queueVars>>

\* the request failed: the catch of fetchMatchingDocuments sets its message
\* and returns [], and startDocumentSearch goes on as for no document
fetchMatchingDocumentsFailed(req) ==
    /\ ~renderThrew
    /\ req \in Awaiting /\ req.kind = "documents"
    /\ requests' = Answered(req)
    /\ agentMessage' = "noDocuments"
    /\ searchingDocumentsFor' = searchingDocumentsFor \ {req.bankIndex}
    /\ Rerender(currentSession)
    /\ UNCHANGED <<routeVars, saveCount, currentSession, modalVars, manualVars, updatingMatches,
                   startVars, matchesWithDocuments, documentsByMatch, acknowledged,
                   panelVars, queueVars>>

----------------------------------------------------------------------------
(* Manual matches *)

toggleManualMatchMode ==
    /\ Mounted /\ ~Overlay
    /\ manualMatchMode' = ~manualMatchMode
    /\ selectedBankEntry' = NoEntry
    /\ selectedGlEntries' = <<>>
    /\ Rerender(currentSession)
    /\ UNCHANGED <<routeVars, currentSession, modalVars, showExplanationModal,
                   isCreatingManualMatch, updatingMatches, callVars, agentMessage, offTable>>

\* click on the bank cell of row i of the unmatched section
selectBankEntry(i) ==
    /\ Mounted /\ ~Overlay
    /\ manualMatchMode
    /\ i \in 1..Len(grouped.bankEntries)
    /\ selectedBankEntry' = grouped.bankEntries[i].bankIndex
    /\ selectedGlEntries' = <<>>
    /\ Rerender(currentSession)
    /\ UNCHANGED <<routeVars, currentSession, modalVars, manualMatchMode, showExplanationModal,
                   isCreatingManualMatch, updatingMatches, callVars, agentMessage, offTable>>

\* prev.includes(glIndex) ? prev.filter(...) : [...prev, glIndex]
Toggled_Appended(prev, glIndex) == Append(prev, glIndex)

Toggled(prev, glIndex) ==
    IF Includes(prev, glIndex)
    THEN SelectSeq(prev, LAMBDA index : index # glIndex)
    ELSE Append(prev, glIndex)

\* click on the ledger cell of row i of the unmatched section
selectGlEntry(i) ==
    /\ Mounted /\ ~Overlay
    /\ manualMatchMode
    /\ i \in 1..Len(grouped.glEntries)
    /\ selectedBankEntry # NoEntry
    /\ selectedGlEntries' = Toggled(selectedGlEntries, grouped.glEntries[i].glEntries[1].glIndex)
    /\ Rerender(currentSession)
    /\ UNCHANGED <<routeVars, currentSession, modalVars, manualMatchMode, selectedBankEntry,
                   showExplanationModal, isCreatingManualMatch,
                   updatingMatches, callVars, agentMessage, offTable>>

\* the Confirm Match button
confirmManualMatch ==
    /\ Mounted /\ ~Overlay
    /\ manualMatchMode
    /\ selectedBankEntry # NoEntry
    /\ Len(selectedGlEntries) > 0
    /\ showExplanationModal' = TRUE
    /\ Rerender(currentSession)
    /\ UNCHANGED <<routeVars, currentSession, modalVars, manualMatchMode, selectedBankEntry,
                   selectedGlEntries, isCreatingManualMatch,
                   updatingMatches, callVars, agentMessage, offTable>>

\* the close button or Cancel of the explanation modal
closeExplanationModal ==
    /\ Mounted /\ showExplanationModal
    /\ showExplanationModal' = FALSE
    /\ Rerender(currentSession)
    /\ UNCHANGED <<routeVars, currentSession, modalVars, manualMatchMode, selectedBankEntry,
                   selectedGlEntries, isCreatingManualMatch,
                   updatingMatches, callVars, agentMessage, offTable>>

newMatch_Pending(bankIndex, glIndexes) ==
    [bank_index |-> bankIndex, gl_indexes |-> glIndexes, confidence |-> 100,
     status |-> "pending"]

newMatch(bankIndex, glIndexes) ==
    [bank_index |-> bankIndex, gl_indexes |-> glIndexes, confidence |-> 100,
     status |-> "approved"]

\* Create Manual Match, enabled once an explanation is typed: createManualMatch
\* up to the await of the save
createManualMatch ==
    /\ Mounted /\ showExplanationModal
    /\ ~isCreatingManualMatch
    /\ selectedBankEntry # NoEntry
    /\ Len(selectedGlEntries) > 0
    /\ Len(currentSession.matches) < MaxRecords
    /\ BagCardinality(requests) < MaxInFlight
    /\ saveCount < MaxSaves
    /\ isCreatingManualMatch' = TRUE
    /\ requests' = Sent(Save("manual", selectedBankEntry, "approved",
                             [currentSession EXCEPT !.matches =
                                 Append(currentSession.matches,
                                        newMatch(selectedBankEntry, selectedGlEntries))],
                             currentSession))
    /\ saveCount' = saveCount + 1
    /\ Rerender(currentSession)
    /\ UNCHANGED <<routeVars, currentSession, modalVars, manualMatchMode, selectedBankEntry,
                   selectedGlEntries, showExplanationModal,
                   updatingMatches, agentMessage, offTable>>

\* the save answered ok
createManualMatchSaved(req) ==
    /\ ~renderThrew
    /\ req \in Awaiting /\ req.kind = "manual"
    /\ requests' = Answered(req)
    /\ currentSession' = req.updatedSession
    /\ agentMessage' = "manualCreated"
    /\ selectedBankEntry' = NoEntry
    /\ selectedGlEntries' = <<>>
    /\ manualMatchMode' = FALSE
    /\ showExplanationModal' = FALSE
    /\ isCreatingManualMatch' = FALSE
    /\ acknowledged' = acknowledged \cup {Change(req)}
    /\ Rerender(currentSession')
    /\ UNCHANGED <<routeVars, saveCount, modalVars, updatingMatches, startVars, docVars, panelVars, queueVars>>

\* the save failed
createManualMatchFailed(req) ==
    /\ ~renderThrew
    /\ req \in Awaiting /\ req.kind = "manual"
    /\ requests' = Answered(req)
    /\ currentSession' = req.originalSession
    /\ agentMessage' = "manualError"
    /\ isCreatingManualMatch' = FALSE
    /\ Rerender(currentSession')
    /\ UNCHANGED <<routeVars, saveCount, modalVars, manualMatchMode, selectedBankEntry, selectedGlEntries,
                   showExplanationModal, updatingMatches, offTable>>

Next ==
    \/ \E fileType \in FileTypes : onDrop(fileType)
    \/ \E fileType \in FileTypes : clearFile(fileType)
    \/ startReconciliation
    \/ \E data \in ServerSessions : startReconciliationOk(data)
    \/ startReconciliationFailed
    \/ \E req \in Awaiting : fetchSessionDetailsOk(req)
    \/ \E req \in Awaiting : fetchSessionDetailsFailed(req)
    \/ Render
    \/ \E i \in 1..MaxBank : handleCellClick(i)
    \/ CloseMatchModal
    \/ DismissMatchModal
    \/ \E status \in {"approved", "rejected"} : updateMatchStatus(status)
    \/ \E req \in Awaiting : updateMatchStatusSaved(req)
    \/ \E req \in Awaiting : updateMatchStatusFailed(req)
    \/ \E req \in Awaiting : fetchMatchingDocumentsFound(req)
    \/ \E req \in Awaiting : fetchMatchingDocumentsEmpty(req)
    \/ \E req \in Awaiting : fetchMatchingDocumentsFailed(req)
    \/ toggleManualMatchMode
    \/ \E i \in 1..MaxBank : selectBankEntry(i)
    \/ \E i \in 1..MaxGl : selectGlEntry(i)
    \/ confirmManualMatch
    \/ closeExplanationModal
    \/ createManualMatch
    \/ \E req \in Awaiting : createManualMatchSaved(req)
    \/ \E req \in Awaiting : createManualMatchFailed(req)

Spec == Init /\ [][Next]_vars

----------------------------------------------------------------------------
(* The document side panel and the rejection queue *)

SidePanelOpen == showDocumentSidePanel /\ selectedDocument

\* click on a document of the preview in the match modal
openDocumentInSidePanel ==
    /\ Mounted /\ MatchModalOpen /\ ~SidePanelOpen /\ ~showDocuments
    /\ selectedMatch.bankIndex \notin searchingDocumentsFor
    /\ selectedMatch.bankIndex \in matchesWithDocuments
    /\ documentsByMatch[selectedMatch.bankIndex] = "some"
    /\ selectedDocument' = TRUE
    /\ showDocumentSidePanel' = TRUE
    /\ rejectionComment' = FALSE
    /\ UNCHANGED <<showDocuments, routeVars, sessionVars, modalVars, manualVars, updatingMatches, callVars, startVars,
                   agentMessage, docVars, acknowledged, queueVars>>

\* typing in the textarea of the side panel
setRejectionComment(text) ==
    /\ SidePanelOpen
    /\ text # rejectionComment
    /\ rejectionComment' = text
    /\ UNCHANGED <<routeVars, sessionVars, modalVars, manualVars, updatingMatches, callVars, startVars,
                   agentMessage, docVars, acknowledged, selectedDocument,
                   showDocumentSidePanel, showDocuments, queueVars>>

closeDocumentSidePanel ==
    /\ SidePanelOpen
    /\ showDocumentSidePanel' = FALSE
    /\ selectedDocument' = FALSE
    /\ rejectionComment' = FALSE
    /\ UNCHANGED <<showDocuments, routeVars, sessionVars, modalVars, manualVars, updatingMatches, callVars, startVars,
                   agentMessage, docVars, acknowledged, queueVars>>

\* rejectionQueue.filter((item) => item.status === "pending")
pendingItems(queue) == SelectSeq(queue, LAMBDA item : item.status = "pending")

\* prev.map(...): the item of the id gets the status
Marked(queue, id, status) ==
    [i \in 1..Len(queue) |->
        IF queue[i].id = id THEN [queue[i] EXCEPT !.status = status] ELSE queue[i]]

\* processQueue, called by the effect of a render with the queue and the
\* flag of that render, up to its first await: it returns at once, or sets
\* the flag, marks its first pending item and sends the request of it
processQueue_NoFlag(q) ==
    IF Len(q.queue) = 0 \/ q.processing \/ Len(pendingItems(q.queue)) = 0
    THEN q
    ELSE [queue |-> Marked(q.queue, pendingItems(q.queue)[1].id, "processing"),
          processing |-> q.processing,
          runs |-> q.runs \cup {[items |-> pendingItems(q.queue), pos |-> 1, pc |-> "fetch"]}]

processQueue(q) ==
    IF Len(q.queue) = 0 \/ q.processing \/ Len(pendingItems(q.queue)) = 0
    THEN q
    ELSE [queue |-> Marked(q.queue, pendingItems(q.queue)[1].id, "processing"),
          processing |-> TRUE,
          runs |-> q.runs \cup {[items |-> pendingItems(q.queue), pos |-> 1, pc |-> "fetch"]}]

\* the effect runs after every render that changed rejectionQueue or
\* isProcessingQueue, the render its own updates cause included
RECURSIVE Effects(_)
Effects(q) == IF processQueue(q) = q THEN q ELSE Effects(processQueue(q))

\* the queue, the flag and the running calls once the handler has set them
\* to these values and the renders and effects that follow have run
Settled(queue, processing, runs) ==
    LET q == Effects([queue |-> queue, processing |-> processing, runs |-> runs])
    IN  /\ rejectionQueue' = q.queue
        /\ isProcessingQueue' = q.processing
        /\ processRuns' = q.runs

\* the Reject & Re-search button, disabled while the comment is blank or
\* the queue is being processed
rejectDocument ==
    /\ SidePanelOpen
    /\ rejectionComment /\ ~isProcessingQueue
    /\ sessionId # "" /\ selectedMatch # Null
    /\ rejectionCount < MaxRejections
    /\ rejectionCount' = rejectionCount + 1
    /\ showDocumentSidePanel' = FALSE
    /\ selectedDocument' = FALSE
    /\ rejectionComment' = FALSE
    /\ agentMessage' = "queued"
    /\ Settled(Append(rejectionQueue,
                      [id |-> rejectionCount + 1, bankIndex |-> selectedMatch.bankIndex,
                       status |-> "pending"]),
               isProcessingQueue, processRuns)
    /\ UNCHANGED <<showDocuments, routeVars, sessionVars, modalVars, manualVars, updatingMatches, callVars, startVars,
                   docVars, acknowledged, removalTimers>>

\* the item a running call is at
Current(run) == run.items[run.pos]

\* the call at its await of the 500 ms delay
Delayed_Stuck(run) == run

Delayed(run) == [run EXCEPT !.pc = "delay"]

\* what result.new_documents can be: documents, [] or undefined
NewDocuments == {"some", "empty", "absent"}

\* POST .../reject-document answered ok
rejectDocumentOk(run, newDocuments) ==
    /\ run \in processRuns /\ run.pc = "fetch"
    /\ documentsByMatch' =
          IF newDocuments = "absent" THEN documentsByMatch
          ELSE [documentsByMatch EXCEPT ![Current(run).bankIndex] = newDocuments]
    /\ matchesWithDocuments' =
          CASE newDocuments = "some" -> matchesWithDocuments \cup {Current(run).bankIndex}
            [] newDocuments = "empty" -> matchesWithDocuments \ {Current(run).bankIndex}
            [] OTHER -> matchesWithDocuments
    /\ agentMessage' = "rejected"
    /\ Settled(Marked(rejectionQueue, Current(run).id, "completed"), isProcessingQueue,
               (processRuns \ {run}) \cup {Delayed(run)})
    /\ UNCHANGED <<routeVars, sessionVars, modalVars, manualVars, updatingMatches, callVars, startVars,
                   searchingDocumentsFor, acknowledged, panelVars, removalTimers,
                   rejectionCount>>

\* the request failed: the catch of the loop
rejectDocumentFailed(run) ==
    /\ run \in processRuns /\ run.pc = "fetch"
    /\ agentMessage' = "rejectError"
    /\ Settled(Marked(rejectionQueue, Current(run).id, "error"), isProcessingQueue,
               (processRuns \ {run}) \cup {Delayed(run)})
    /\ UNCHANGED <<routeVars, sessionVars, modalVars, manualVars, updatingMatches, callVars, startVars,
                   docVars, acknowledged, panelVars, removalTimers, rejectionCount>>

\* the 500 ms delay after an item is over: the loop takes its next item, or
\* ends, and then the removal of the completed items is scheduled and the
\* flag is cleared
delayElapsed(run) ==
    /\ run \in processRuns /\ run.pc = "delay"
    /\ IF run.pos < Len(run.items)
       THEN /\ Settled(Marked(rejectionQueue, run.items[run.pos + 1].id, "processing"),
                       isProcessingQueue,
                       (processRuns \ {run}) \cup
                           {[run EXCEPT !.pos = run.pos + 1, !.pc = "fetch"]})
            /\ UNCHANGED removalTimers
       ELSE /\ Settled(rejectionQueue, FALSE, processRuns \ {run})
            /\ removalTimers' = removalTimers + 1
    /\ UNCHANGED <<routeVars, sessionVars, modalVars, manualVars, updatingMatches, callVars, startVars,
                   agentMessage, docVars, acknowledged, panelVars, rejectionCount>>

\* a setTimeout(..., 2000) callback: prev.filter(status !== "completed")
removalTimerFired ==
    /\ removalTimers > 0
    /\ removalTimers' = removalTimers - 1
    /\ Settled(SelectSeq(rejectionQueue, LAMBDA item : item.status # "completed"),
               isProcessingQueue, processRuns)
    /\ UNCHANGED <<routeVars, sessionVars, modalVars, manualVars, updatingMatches, callVars, startVars,
                   agentMessage, docVars, acknowledged, panelVars, rejectionCount>>

\* a loaded page on which the matches of both bank rows have been approved
\* and documents found for them
QueueSession ==
    [bank_data |-> Rows(MaxBank, Dated(1)), gl_data |-> Rows(MaxBank, Dated(1)),
     matches |-> [b \in 1..MaxBank |->
                     [bank_index |-> b - 1, gl_indexes |-> <<b - 1>>, confidence |-> 95,
                      status |-> "approved"]]]

InitQueue ==
    /\ currentSession = QueueSession
    /\ rendered = TRUE
    /\ grouped = createGroupedData(QueueSession)
    /\ renderThrew = FALSE
    /\ Loaded
    /\ agentMessage = "found"
    /\ selectedMatch = Null
    /\ showMatchModal = FALSE
    /\ updatingMatches = {}
    /\ manualMatchMode = FALSE
    /\ selectedBankEntry = NoEntry
    /\ selectedGlEntries = <<>>
    /\ showExplanationModal = FALSE
    /\ isCreatingManualMatch = FALSE
    /\ requests = EmptyBag
    /\ saveCount = MaxBank
    /\ searchingDocumentsFor = {}
    /\ matchesWithDocuments = BankIndexes
    /\ documentsByMatch = [b \in BankIndexes |-> "some"]
    /\ acknowledged = {[kind |-> "update", bankIndex |-> b, status |-> "approved",
                        glIndexes |-> <<>>] : b \in BankIndexes}
    /\ selectedDocument = FALSE
    /\ showDocumentSidePanel = FALSE
    /\ rejectionComment = FALSE
    /\ showDocuments = FALSE
    /\ rejectionQueue = <<>>
    /\ isProcessingQueue = FALSE
    /\ processRuns = {}
    /\ removalTimers = 0
    /\ rejectionCount = 0
    /\ RouteIdle

NextQueue ==
    \/ \E i \in 1..MaxBank : handleCellClick(i)
    \/ CloseMatchModal
    \/ openDocumentInSidePanel
    \/ \E text \in BOOLEAN : setRejectionComment(text)
    \/ closeDocumentSidePanel
    \/ rejectDocument
    \/ \E run \in processRuns, newDocuments \in NewDocuments : rejectDocumentOk(run, newDocuments)
    \/ \E run \in processRuns : rejectDocumentFailed(run)
    \/ \E run \in processRuns : delayElapsed(run)
    \/ removalTimerFired

SpecQueue == InitQueue /\ [][NextQueue]_vars

\* the "found docs" button of a row of the table, or "View all documents"
\* of the preview in the match modal: viewDocumentsForMatch up to the await
\* of fetchMatchingDocuments(bankIndex, true)
viewDocumentsForMatch(bankIndex) ==
    /\ Mounted /\ sessionId # ""
    /\ bankIndex \in matchesWithDocuments
    /\ \/ /\ ~Overlay
          /\ \E i \in 1..Len(grouped.activeGroups) :
                 grouped.activeGroups[i].bankIndex = bankIndex
       \/ /\ MatchModalOpen /\ ~showDocuments /\ ~SidePanelOpen
          /\ selectedMatch.bankIndex = bankIndex
          /\ bankIndex \notin searchingDocumentsFor
    /\ BagCardinality(requests) < MaxInFlight
    /\ requests' = Sent(Call("view", bankIndex))
    /\ UNCHANGED <<routeVars, saveCount, sessionVars, modalVars, manualVars, updatingMatches,
                   startVars, agentMessage, docVars, acknowledged, panelVars, queueVars>>

\* setMatchesWithDocuments of fetchMatchingDocuments: the bank index is
\* added when the list has documents
WithDocuments(prev, bankIndex, documents) ==
    IF documents = "some" THEN prev \cup {bankIndex} ELSE prev

\* answered ok, with documents or with none: the list is stored and the
\* Matching Documents modal is shown
viewDocumentsOk(req, documents) ==
    /\ req \in Awaiting /\ req.kind = "view"
    /\ requests' = Answered(req)
    /\ documentsByMatch' = [documentsByMatch EXCEPT ![req.bankIndex] = documents]
    /\ matchesWithDocuments' = WithDocuments(matchesWithDocuments, req.bankIndex, documents)
    /\ showDocuments' = TRUE
    /\ UNCHANGED <<routeVars, saveCount, sessionVars, modalVars, manualVars, updatingMatches,
                   startVars, agentMessage, searchingDocumentsFor, acknowledged,
                   selectedDocument, showDocumentSidePanel, rejectionComment, queueVars>>

\* the request failed: the catch of fetchMatchingDocuments
viewDocumentsFailed(req) ==
    /\ req \in Awaiting /\ req.kind = "view"
    /\ requests' = Answered(req)
    /\ agentMessage' = "documentsError"
    /\ UNCHANGED <<routeVars, saveCount, sessionVars, modalVars, manualVars, updatingMatches,
                   startVars, docVars, acknowledged, panelVars, queueVars>>

\* the close buttons of the Matching Documents modal
closeDocuments ==
    /\ showDocuments /\ ~SidePanelOpen
    /\ showDocuments' = FALSE
    /\ UNCHANGED <<routeVars, sessionVars, modalVars, manualVars, updatingMatches, callVars,
                   startVars, agentMessage, docVars, acknowledged, selectedDocument,
                   showDocumentSidePanel, rejectionComment, queueVars>>

\* the queue and the views of the documents of the matches, from the same
\* page
NextDocs ==
    \/ NextQueue
    \/ \E bankIndex \in BankIndexes : viewDocumentsForMatch(bankIndex)
    \/ \E req \in Awaiting, documents \in {"some", "empty"} : viewDocumentsOk(req, documents)
    \/ \E req \in Awaiting : viewDocumentsFailed(req)
    \/ closeDocuments

SpecDocs == InitQueue /\ [][NextDocs]_vars

\* a reject-document request that has been sent is answered, ok or not
Responds ==
    \/ \E run \in processRuns, newDocuments \in NewDocuments : rejectDocumentOk(run, newDocuments)
    \/ \E run \in processRuns : rejectDocumentFailed(run)

\* the queue with every request answered in the end and every timer of
\* setTimeout firing in the end; what the user does is left free
SpecQueueLive ==
    /\ SpecQueue
    /\ WF_vars(Responds)
    /\ WF_vars(\E run \in processRuns : delayElapsed(run))
    /\ WF_vars(removalTimerFired)

----------------------------------------------------------------------------
(* The manual-match route                                                  *)
(* (api/reconcile/session/[sessionId]/manual-match/route.ts), for one      *)
(* session id.  readFile and writeFile are taken as atomic: a read sees    *)
(* the data of the last write that has completed, and a write that throws  *)
(* leaves the file as it was.                                              *)

\* the body of a request: bank_index (NoEntry when missing), gl_indexes and
\* whether explanation is a string with non-blank text
ValidBodies ==
    [bank_index : 0..(MaxRouteBank - 1), gl_indexes : {<<0>>, <<1>>}, explanation : {TRUE}]

InvalidBodies ==
    {[bank_index |-> NoEntry, gl_indexes |-> <<0>>, explanation |-> TRUE],
     [bank_index |-> 0, gl_indexes |-> <<>>, explanation |-> TRUE],
     [bank_index |-> 0, gl_indexes |-> <<0>>, explanation |-> FALSE]}

Bodies == ValidBodies \cup InvalidBodies

\* session_{sessionId}.json: missing, or with bank_matches holding at most
\* one record for a bank index
SessionFiles ==
    {NoSessionFile,
     [exists |-> TRUE, bank_matches |-> <<>>, manual_matches_count |-> 0],
     [exists |-> TRUE,
      bank_matches |-> <<[bank_index |-> 0, gl_indexes |-> <<0>>, status |-> "pending"]>>,
      manual_matches_count |-> 0]}

\* the response to request id, with what the request asked for
Answer(id, body, status) ==
    [id |-> id, bank_index |-> body.bank_index, gl_indexes |-> body.gl_indexes,
     status |-> status]

\* the checks of the body, in their order; 0 when it passes
Validation(body) ==
    IF body.bank_index = NoEntry THEN 400
    ELSE IF Len(body.gl_indexes) = 0 THEN 400
    ELSE IF ~body.explanation THEN 400
    ELSE 0

\* POST up to the await of readFile
manualMatchPost(body) ==
    /\ postCount < MaxPosts
    /\ postCount' = postCount + 1
    /\ IF Validation(body) # 0
       THEN /\ answers' = answers \cup {Answer(postCount + 1, body, Validation(body))}
            /\ UNCHANGED handlers
       ELSE IF ~sessionFile.exists
       THEN /\ answers' = answers \cup {Answer(postCount + 1, body, 404)}
            /\ UNCHANGED handlers
       ELSE /\ handlers' = handlers \cup
                   {[id |-> postCount + 1, body |-> body, pc |-> "readFile",
                     sessionData |-> NoSessionFile]}
            /\ UNCHANGED answers
    /\ UNCHANGED <<sessionFile, documentsDir, pageVars>>

\* sessionData.bank_matches.find(match => match.bank_index === bank_index)
existingMatch(sessionData, bank_index) ==
    \E i \in 1..Len(sessionData.bank_matches) :
        sessionData.bank_matches[i].bank_index = bank_index

\* sessionData after the push of newMatch and the update of the metadata
Pushed(sessionData, body) ==
    [sessionData EXCEPT
        !.bank_matches = Append(@, [bank_index |-> body.bank_index,
                                    gl_indexes |-> body.gl_indexes,
                                    status |-> "approved"]),
        !.manual_matches_count = @ + 1]

\* readFile has completed: the check for an existing match, then the push
\* and the await of writeFile
manualMatchRead(h) ==
    /\ h \in handlers /\ h.pc = "readFile"
    /\ IF existingMatch(sessionFile, h.body.bank_index)
       THEN /\ answers' = answers \cup {Answer(h.id, h.body, 400)}
            /\ handlers' = handlers \ {h}
       ELSE /\ handlers' = (handlers \ {h}) \cup
                   {[h EXCEPT !.pc = "writeFile",
                              !.sessionData = Pushed(sessionFile, h.body)]}
            /\ UNCHANGED answers
    /\ UNCHANGED <<sessionFile, postCount, documentsDir, pageVars>>

\* writeFile has completed
manualMatchWritten(h) ==
    /\ h \in handlers /\ h.pc = "writeFile"
    /\ sessionFile' = h.sessionData
    /\ answers' = answers \cup {Answer(h.id, h.body, 200)}
    /\ handlers' = handlers \ {h}
    /\ UNCHANGED <<postCount, documentsDir, pageVars>>

\* readFile, JSON.parse or writeFile throws: the catch of the handler
manualMatchFailed(h) ==
    /\ h \in handlers
    /\ answers' = answers \cup {Answer(h.id, h.body, 500)}
    /\ handlers' = handlers \ {h}
    /\ UNCHANGED <<sessionFile, postCount, documentsDir, pageVars>>

InitRoute ==
    /\ PageConstructed
    /\ sessionFile \in SessionFiles
    /\ handlers = {}
    /\ answers = {}
    /\ postCount = 0
    /\ documentsDir = {}

NextRoute ==
    \/ \E body \in Bodies : manualMatchPost(body)
    \/ \E h \in handlers : manualMatchRead(h)
    \/ \E h \in handlers : manualMatchWritten(h)
    \/ \E h \in handlers : manualMatchFailed(h)

SpecRoute == InitRoute /\ [][NextRoute]_vars

----------------------------------------------------------------------------
(* The documents route (api/documents/route.ts), POST *)

\* a file of the form data: its type is application/pdf or not, its name
\* ends with .pdf (in any case) or not
Files == [pdfType : BOOLEAN, pdfName : BOOLEAN]

\* file.type !== "application/pdf" && !file.name.toLowerCase().endsWith(".pdf")
NotPdf(file) == ~file.pdfType /\ ~file.pdfName

Uploads == BoundedSeq(Files, MaxFiles)

UploadAnswer(id, files, status) == [id |-> id, files |-> files, status |-> status]

\* the loop from file i on, up to its next await or its return: a file that
\* is not a PDF ends the request with 400, a PDF is written, and past the
\* last file the request is answered
Loop(id, files, i) ==
    IF i > Len(files)
    THEN /\ answers' = answers \cup {UploadAnswer(id, files, 200)}
         /\ handlers' = {h \in handlers : h.id # id}
    ELSE IF NotPdf(files[i])
    THEN /\ answers' = answers \cup {UploadAnswer(id, files, 400)}
         /\ handlers' = {h \in handlers : h.id # id}
    ELSE /\ handlers' = {h \in handlers : h.id # id} \cup
                {[id |-> id, files |-> files, i |-> i, pc |-> "writeFile"]}
         /\ UNCHANGED answers

\* POST: the files of the form data, the documents directory, and the loop
\* up to its first await
documentsPost(files) ==
    /\ postCount < MaxUploads
    /\ postCount' = postCount + 1
    /\ IF Len(files) = 0
       THEN /\ answers' = answers \cup {UploadAnswer(postCount + 1, files, 400)}
            /\ UNCHANGED handlers
       ELSE Loop(postCount + 1, files, 1)
    /\ UNCHANGED <<sessionFile, documentsDir, pageVars>>

\* writeFile of file i has completed: the file is in the directory and the
\* loop goes on
documentsWritten(h) ==
    /\ h \in handlers /\ h.pc = "writeFile"
    /\ documentsDir' = documentsDir \cup {[id |-> h.id, i |-> h.i]}
    /\ Loop(h.id, h.files, h.i + 1)
    /\ UNCHANGED <<sessionFile, postCount, pageVars>>

\* arrayBuffer or writeFile throws: the catch of the handler
documentsFailed(h) ==
    /\ h \in handlers
    /\ answers' = answers \cup {UploadAnswer(h.id, h.files, 500)}
    /\ handlers' = handlers \ {h}
    /\ UNCHANGED <<sessionFile, postCount, documentsDir, pageVars>>

InitUpload ==
    /\ PageConstructed
    /\ sessionFile = NoSessionFile
    /\ handlers = {}
    /\ answers = {}
    /\ postCount = 0
    /\ documentsDir = {}

NextUpload ==
    \/ \E files \in Uploads : documentsPost(files)
    \/ \E h \in handlers : documentsWritten(h)
    \/ \E h \in handlers : documentsFailed(h)

SpecUpload == InitUpload /\ [][NextUpload]_vars

----------------------------------------------------------------------------
(* Reading the rendered view *)

N == Len(currentSession.bank_data)
M == Len(currentSession.gl_data)

\* places where bank index b is shown
BankPlaces(b) ==
    {<<"matched", i>> : i \in {i \in 1..Len(grouped.activeGroups) :
                                 grouped.activeGroups[i].bankIndex = b}}
    \cup {<<"unmatched", i>> : i \in {i \in 1..Len(grouped.bankEntries) :
                                        grouped.bankEntries[i].bankIndex = b}}

\* nested slots <<group, slot>> that hold ledger index g
NestedPlaces(g) ==
    {p \in UNION {{<<i, k>> : k \in 1..Len(grouped.activeGroups[i].glEntries)} :
                    i \in 1..Len(grouped.activeGroups)} :
        grouped.activeGroups[p[1]].glEntries[p[2]].glIndex = g}

\* positions of the unmatched ledger list that hold ledger index g
UnmatchedGlPlaces(g) ==
    {i \in 1..Len(grouped.glEntries) : grouped.glEntries[i].glEntries[1].glIndex = g}

MatchIndexes == 1..Len(currentSession.matches)

\* C1: every bank index 0..N-1 is shown exactly once, as the bank row of one
\* matched group or as one entry of the unmatched bank list.
C1_BankIndexShownOnce ==
    rendered => \A b \in 0..(N - 1) : Cardinality(BankPlaces(b)) = 1

\* C2: every ledger index 0..M-1 is shown: nested under the matched group of
\* a non-rejected match that lists it, otherwise in the unmatched ledger list.
C2_LedgerIndexShown ==
    rendered =>
        \A g \in 0..(M - 1) :
            LET claimers == {i \in MatchIndexes :
                               /\ currentSession.matches[i].status # "rejected"
                               /\ Includes(currentSession.matches[i].gl_indexes, g)}
            IN  IF claimers # {}
                THEN \A i \in claimers :
                        \E p \in NestedPlaces(g) :
                            grouped.activeGroups[p[1]].bankIndex =
                                currentSession.matches[i].bank_index
                ELSE UnmatchedGlPlaces(g) # {}

\* C3: no ledger index is shown in two places (two groups, twice in one
\* group, or nested and unmatched).
C3_LedgerIndexNotShownTwice ==
    rendered =>
        \A g \in 0..(MaxGl + 1) :
            Cardinality(NestedPlaces(g)) + Cardinality(UnmatchedGlPlaces(g)) <= 1

\* the groups of the view that carry a bank row, matched ones first
BankGroups == grouped.activeGroups \o grouped.bankEntries

\* C4 as claimed: a rejected match nests no ledger row under its bank row,
\* and each of its gl_indexes is in the unmatched ledger list unless another,
\* non-rejected match claims it.
C4_RejectedClaimsNothing_Orig ==
    rendered =>
        \A i \in MatchIndexes :
            currentSession.matches[i].status = "rejected" =>
                /\ \A k \in 1..Len(BankGroups) :
                      BankGroups[k].bankMatch = MatchDetails(currentSession.matches[i])
                          => BankGroups[k].glEntries = <<>>
                /\ \A g \in Range(currentSession.matches[i].gl_indexes) :
                      \/ UnmatchedGlPlaces(g) # {}
                      \/ \E j \in MatchIndexes \ {i} :
                            /\ currentSession.matches[j].status # "rejected"
                            /\ Includes(currentSession.matches[j].gl_indexes, g)

\* C4 (amended): a rejected match nests no ledger row under its bank row,
\* and each of its gl_indexes that is the index of an existing ledger row is
\* in the unmatched ledger list unless another, non-rejected match claims it.
C4_RejectedClaimsNothing ==
    rendered =>
        \A i \in MatchIndexes :
            currentSession.matches[i].status = "rejected" =>
                /\ \A k \in 1..Len(BankGroups) :
                      BankGroups[k].bankMatch = MatchDetails(currentSession.matches[i])
                          => BankGroups[k].glEntries = <<>>
                /\ \A g \in Range(currentSession.matches[i].gl_indexes) \cap (0..(M - 1)) :
                      \/ UnmatchedGlPlaces(g) # {}
                      \/ \E j \in MatchIndexes \ {i} :
                            /\ currentSession.matches[j].status # "rejected"
                            /\ Includes(currentSession.matches[j].gl_indexes, g)

\* a rejected match is the resolved match of its bank row, nothing is nested
\* under that row, and one of its ledger rows is listed as unmatched
C4_Witness ==
    /\ rendered
    /\ \E i \in MatchIndexes :
          /\ currentSession.matches[i].status = "rejected"
          /\ \E k \in 1..Len(grouped.bankEntries) :
                /\ grouped.bankEntries[k].bankMatch = MatchDetails(currentSession.matches[i])
                /\ grouped.bankEntries[k].isRejected
          /\ \E g \in Range(currentSession.matches[i].gl_indexes) : UnmatchedGlPlaces(g) # {}

\* C5: every entry of a matched group's nested ledger list refers to an
\* existing ledger row (an out-of-range index of gl_indexes is dropped).
C5_NestedEntriesExist ==
    rendered =>
        \A i \in 1..Len(grouped.activeGroups) :
            \A k \in 1..Len(grouped.activeGroups[i].glEntries) :
                /\ grouped.activeGroups[i].glEntries[k].glIndex \in 0..(M - 1)
                /\ grouped.activeGroups[i].glEntries[k].data # Undefined

\* some non-rejected match lists a ledger index that does not exist
DanglingActiveMatch ==
    \E i \in MatchIndexes :
        /\ currentSession.matches[i].status # "rejected"
        /\ \E g \in Range(currentSession.matches[i].gl_indexes) : g \notin 0..(M - 1)

\* C6: rendering a session in which an active match references a ledger
\* index that does not exist raises no exception.
C6_DanglingIndexRendersQuietly ==
    (rendered /\ DanglingActiveMatch) => ~renderThrew

\* C7: when exactly one of bank_data and gl_data is empty, the rows of the
\* other side are all shown as unmatched entries.
C7_OneSideEmpty ==
    (rendered /\ ((N = 0) # (M = 0))) =>
        /\ \A b \in 0..(N - 1) :
              \E i \in 1..Len(grouped.bankEntries) : grouped.bankEntries[i].bankIndex = b
        /\ \A g \in 0..(M - 1) : UnmatchedGlPlaces(g) # {}

\* the sort key the specification gives a row: its date, epoch-0 when the
\* date is missing or cannot be parsed
SpecKey(row) == IF row.kind = "ok" THEN row.t ELSE 0

\* C8: the matched groups are in ascending order of the bank row's date, and
\* groups of equal date are in the order of their bank indexes (stated for
\* the groups whose bank row has no date or a date that parses).
C8_MatchedGroupsDateOrdered ==
    rendered =>
        \A i, j \in 1..Len(grouped.activeGroups) :
            LET a == grouped.activeGroups[i]
                b == grouped.activeGroups[j]
            IN  (i < j /\ a.bankEntry.kind # "bad" /\ b.bankEntry.kind # "bad") =>
                    \/ SpecKey(a.bankEntry) < SpecKey(b.bankEntry)
                    \/ /\ SpecKey(a.bankEntry) = SpecKey(b.bankEntry)
                       /\ a.bankIndex < b.bankIndex

\* a list of groups has every row without a date field before every row
\* dated after the epoch
UndatedFirst(list) ==
    \A i, j \in 1..Len(list) :
        (list[i].bankEntry.kind = "none" /\ list[j].bankEntry.kind = "ok"
            /\ list[j].bankEntry.t > 0) => i < j

\* C9: a bank row with no date field has sort key epoch-0 and stands before
\* every dated bank row of its list (stated for rows dated after the epoch).
C9_UndatedRowsFirst ==
    rendered =>
        /\ UndatedFirst(grouped.activeGroups)
        /\ UndatedFirst(grouped.bankEntries)
        /\ \A i \in 1..Len(BankGroups) :
              BankGroups[i].bankEntry.kind = "none" => BankGroups[i].date = Time(0)

\* C10: a row whose date cannot be parsed has sort key epoch-0, like a row
\* with no date, and the comparator is a consistent order of the rows.
C10_UnparseableDateIsEpoch ==
    rendered =>
        /\ \A i \in 1..Len(BankGroups) :
              BankGroups[i].bankEntry.kind = "bad" => BankGroups[i].date = Time(0)
        /\ ConsistentComparator(bankTransactions(currentSession))

\* the ledger indexes of a nested list, in the order of the list
NestedOrder(group) == [k \in 1..Len(group.glEntries) |-> group.glEntries[k].glIndex]

\* C11: within a matched group the nested ledger rows are in exactly the
\* order of the gl_indexes of the match resolved for the group's bank row.
C11_NestedOrderIsGlIndexes ==
    rendered =>
        \A i \in 1..Len(grouped.activeGroups) :
            /\ NestedOrder(grouped.activeGroups[i]) = grouped.activeGroups[i].bankMatch.glIndexes
            /\ \E j \in MatchIndexes :
                  /\ currentSession.matches[j].bank_index = grouped.activeGroups[i].bankIndex
                  /\ currentSession.matches[j].gl_indexes = NestedOrder(grouped.activeGroups[i])

\* a matched group nests two ledger rows in descending index order, as its
\* match lists them
C11_Witness ==
    /\ rendered
    /\ \E i \in 1..Len(grouped.activeGroups) :
          /\ NestedOrder(grouped.activeGroups[i]) = <<1, 0>>
          /\ grouped.activeGroups[i].bankMatch.glIndexes = <<1, 0>>

\* the classification the specification gives a bank row whose resolved
\* match is m (confidences in hundredths)
SpecStyle(m) ==
    IF m = Null \/ m.glIndexes = <<>> \/ m.status = "rejected" THEN "no-match"
    ELSE IF m.status = "approved" THEN "approved"
    ELSE IF m.confidence >= 70 THEN "high-confidence"
    ELSE "low-confidence"

\* C12: a group is classified approved when its resolved match is approved,
\* otherwise high-confidence when the confidence is >= 0.7, otherwise
\* low-confidence; no match, an empty gl_indexes or a rejected match gives
\* no-match.  A single pending match of confidence 0.95 with one ledger index
\* gives one matched group, high-confidence, with one nested entry.
C12_GroupStyle ==
    rendered =>
        /\ \A i \in 1..Len(BankGroups) :
              /\ BankGroups[i].bankMatch =
                    getMatchForBankEntry(currentSession, BankGroups[i].bankIndex)
              /\ BankGroups[i].groupStyle = SpecStyle(BankGroups[i].bankMatch)
        /\ \A i \in 1..Len(grouped.activeGroups) :
              grouped.activeGroups[i].groupStyle # "no-match"
        /\ \A i \in 1..Len(grouped.bankEntries) :
              grouped.bankEntries[i].groupStyle = "no-match"
        /\ (/\ ~grouped.empty
            /\ Len(currentSession.matches) = 1
            /\ currentSession.matches[1].bank_index \in 0..(N - 1)
            /\ currentSession.matches[1].status = "pending"
            /\ currentSession.matches[1].confidence = 95
            /\ Len(currentSession.matches[1].gl_indexes) = 1)
           => /\ Len(grouped.activeGroups) = 1
              /\ grouped.activeGroups[1].groupStyle = "high-confidence"
              /\ Len(grouped.activeGroups[1].glEntries) = 1

\* a pending match whose confidence is exactly 0.7 heads a matched group
\* classified high-confidence, and one of confidence 0.69 a low-confidence one
C12_Witness ==
    /\ rendered
    /\ Len(grouped.activeGroups) = 1
    /\ grouped.activeGroups[1].bankMatch.status = "pending"
    /\ grouped.activeGroups[1].bankMatch.confidence = 70
    /\ grouped.activeGroups[1].groupStyle = "high-confidence"
    /\ \E j \in MatchIndexes : currentSession.matches[j].confidence = 69

\* the bank indexes of a list of groups, in the order of the list
BankOrder(list) == [i \in 1..Len(list) |-> list[i].bankIndex]

\* the ledger indexes of the unmatched ledger list, in the order of the list
UnmatchedGlOrder == [i \in 1..Len(grouped.glEntries) |-> grouped.glEntries[i].glEntries[1].glIndex]

\* C13: with an empty match list and non-empty bank_data and gl_data there
\* is no matched group, every bank row is an unmatched bank entry and every
\* ledger row an unmatched ledger entry (each once).
C13_NoMatchesAllUnmatched ==
    (rendered /\ currentSession.matches = <<>> /\ N > 0 /\ M > 0) =>
        /\ ~grouped.empty
        /\ grouped.activeGroups = <<>>
        /\ Len(grouped.bankEntries) = N
        /\ Range(BankOrder(grouped.bankEntries)) = 0..(N - 1)
        /\ \A i \in 1..N : grouped.bankEntries[i].isUnmatchedBank
        /\ Len(grouped.glEntries) = M
        /\ Range(UnmatchedGlOrder) = 0..(M - 1)

\* two bank rows and two ledger rows rendered with no match record
C13_Witness ==
    /\ rendered
    /\ currentSession.matches = <<>>
    /\ N >= 2 /\ M >= 2
    /\ Len(grouped.bankEntries) = N
    /\ Len(grouped.glEntries) = M

\* positions of the match list that hold a record of bank index b
RecordsOf(b) == {j \in MatchIndexes : currentSession.matches[j].bank_index = b}

\* C14: the record resolved for a bank row is one of the records of its bank
\* index; it is a non-rejected one whenever the bank index has a non-rejected
\* record, and a rejected one only if all its records are rejected.
C14_NonRejectedPreferred ==
    rendered =>
        \A b \in 0..(N - 1) :
            LET resolved == getMatchForBankEntry(currentSession, b)
                live == {j \in RecordsOf(b) : currentSession.matches[j].status # "rejected"}
            IN  /\ (RecordsOf(b) = {}) <=> (resolved = Null)
                /\ RecordsOf(b) # {} =>
                      \E j \in RecordsOf(b) : resolved = MatchDetails(currentSession.matches[j])
                /\ live # {} => resolved.status # "rejected"
                /\ \A k \in 1..Len(BankGroups) :
                      BankGroups[k].bankIndex = b => BankGroups[k].bankMatch = resolved

\* a bank row whose first record is rejected and whose second is not heads a
\* matched group under the second record
C14_Witness ==
    /\ rendered
    /\ \E i \in 1..Len(grouped.activeGroups) :
          LET b == grouped.activeGroups[i].bankIndex
          IN  /\ \E j \in RecordsOf(b) :
                    /\ currentSession.matches[j].status = "rejected"
                    /\ \A k \in RecordsOf(b) : j <= k
              /\ grouped.activeGroups[i].bankMatch.status # "rejected"

\* C16: the output is the matched groups, in date order, followed by one
\* unmatched section; the section is rendered as max(|unmatched bank|,
\* |unmatched ledger|) rows, row i pairing the i-th unmatched bank entry with
\* the i-th unmatched ledger entry and the shorter side padded with empty
\* cells, so that every unmatched entry is rendered exactly once.
C16_MatchedThenUnmatchedSection ==
    rendered =>
        LET rows == UnmatchedRows(grouped)
        IN  /\ ~grouped.empty
            /\ ~renderThrew
            /\ \A i, j \in 1..Len(grouped.activeGroups) :
                  i < j => SpecKey(grouped.activeGroups[i].bankEntry)
                              <= SpecKey(grouped.activeGroups[j].bankEntry)
            /\ Len(rows) = Max(Len(grouped.bankEntries), Len(grouped.glEntries))
            /\ \A i \in 1..Len(grouped.bankEntries) :
                  /\ rows[i].bank = Cell(grouped.bankEntries[i].bankIndex)
                  /\ Cardinality({k \in 1..Len(rows) : rows[k].bank = rows[i].bank}) = 1
            /\ \A i \in 1..Len(grouped.glEntries) :
                  /\ rows[i].gl = Cell(grouped.glEntries[i].glEntries[1].glIndex)
                  /\ Cardinality({k \in 1..Len(rows) : rows[k].gl = rows[i].gl}) = 1
            /\ \A i \in 1..Len(rows) :
                  /\ i > Len(grouped.bankEntries) => rows[i].bank = EmptyCell
                  /\ i > Len(grouped.glEntries) => rows[i].gl = EmptyCell

----------------------------------------------------------------------------
(* The record displayed for a bank index *)

Last(S) == CHOOSE j \in S : \A i \in S : i <= j

\* C15: for a bank index with several records the record displayed is the
\* last added non-rejected one, and the last added one if all are rejected.
C15_MostRecentRecordDisplayed ==
    rendered =>
        \A b \in 0..(N - 1) :
            RecordsOf(b) # {} =>
                LET live == {j \in RecordsOf(b) : currentSession.matches[j].status # "rejected"}
                    active == IF live # {} THEN Last(live) ELSE Last(RecordsOf(b))
                IN  \A k \in 1..Len(BankGroups) :
                        BankGroups[k].bankIndex = b =>
                            BankGroups[k].bankMatch = MatchDetails(currentSession.matches[active])

----------------------------------------------------------------------------
(* Overlapping calls *)

\* the change is in the local match list
Kept(change) ==
    \E i \in MatchIndexes :
        /\ currentSession.matches[i].bank_index = change.bankIndex
        /\ IF change.kind = "manual"
           THEN currentSession.matches[i].gl_indexes = change.glIndexes
           ELSE currentSession.matches[i].status = change.status

\* C18: a response is applied with no look at what happened since its call
\* began: a failed status update and a failed manual match put back the
\* session captured when the call began, a saved manual match puts in the
\* session built from it, whatever currentSession holds by then.
C18_NoGuardAgainstStaleResponses ==
    [][\A req \in Awaiting :
          /\ updateMatchStatusFailed(req) => currentSession' = req.originalSession
          /\ createManualMatchFailed(req) => currentSession' = req.originalSession
          /\ createManualMatchSaved(req) => currentSession' = req.updatedSession]_vars

\* every call has been answered and a change the service answered ok is not
\* in the local match list
C18_Witness ==
    /\ requests = EmptyBag
    /\ \E change \in acknowledged : ~Kept(change)

----------------------------------------------------------------------------
(* Failed calls and the message shown *)

FailedCall ==
    \/ startReconciliationFailed
    \/ \E req \in Awaiting : fetchSessionDetailsFailed(req)
    \/ \E req \in Awaiting : updateMatchStatusFailed(req)
    \/ \E req \in Awaiting : fetchMatchingDocumentsFailed(req)
    \/ \E req \in Awaiting : createManualMatchFailed(req)

\* C20: when a call of the page fails, the message shown once its handler
\* has run is an error message.
C20_FailedCallShowsError ==
    [][FailedCall => agentMessage' \in ErrorMessages]_vars

----------------------------------------------------------------------------
(* The rejection queue *)

Processing == {i \in 1..Len(rejectionQueue) : rejectionQueue[i].status = "processing"}

\* the calls awaiting the response of their reject-document request
InFlightRejections == {run \in processRuns : run.pc = "fetch"}

\* the items whose request is sent by this step
SentNow ==
    {i \in 1..Len(rejectionQueue') :
        /\ rejectionQueue'[i].status = "processing"
        /\ \A j \in 1..Len(rejectionQueue) :
               rejectionQueue[j].id = rejectionQueue'[i].id =>
                   rejectionQueue[j].status # "processing"}

\* C19: at most one queue item is 'processing', at most one reject-document
\* request is in flight, and when the request of an item is sent no item
\* queued before it is still pending.
C19_OneAtATimeInOrder ==
    /\ [](Cardinality(Processing) <= 1 /\ Cardinality(InFlightRejections) <= 1)
    /\ [][\A i \in SentNow :
              \A j \in 1..(i - 1) : rejectionQueue'[j].status # "pending"]_vars

\* an item is being processed while an earlier one, rejected before it and
\* over, is still in the queue
C19_Witness ==
    /\ Cardinality(InFlightRejections) = 1
    /\ \E i \in Processing : i > 1 /\ rejectionQueue[1].status \in {"completed", "error"}

----------------------------------------------------------------------------
(* Status updates *)

Matches == currentSession.matches

InFlight(kind) == {req \in Awaiting : req.kind = kind}

\* C21: updateMatchStatus sets the status of the records of its bank index,
\* and of no other record, before its save is answered; a failed save puts
\* back the match list the call started from; and when the only call made
\* so far has failed every record is as the service sent it.
C21_OptimisticThenReverted ==
    /\ [][/\ \A status \in {"approved", "rejected"} :
              updateMatchStatus(status) =>
                  /\ Len(Matches') = Len(Matches)
                  /\ \A i \in MatchIndexes :
                        Matches'[i] =
                            IF Matches[i].bank_index = selectedMatch.bankIndex
                            THEN [Matches[i] EXCEPT !.status = status]
                            ELSE Matches[i]
                  /\ \E req \in InFlight("update")' :
                        /\ req.bankIndex = selectedMatch.bankIndex
                        /\ req.originalSession = currentSession
          /\ \A req \in Awaiting :
              updateMatchStatusFailed(req) => Matches' = req.originalSession.matches]_vars
    /\ [](saveCount = 1 /\ requests = EmptyBag /\ acknowledged = {} =>
             \A i \in MatchIndexes : Matches[i].status = "pending")

\* the one call made so far, a status update of a session with two
\* records, has failed
C21_Witness ==
    /\ saveCount = 1 /\ requests = EmptyBag /\ acknowledged = {}
    /\ agentMessage = "updateError"
    /\ Len(Matches) = 2

\* C22: a document search is started for a bank index only by a step after
\* which the service has answered ok to the approval of that bank index.
C22_SearchOnlyAfterSavedApproval ==
    [][\A b \in searchingDocumentsFor' \ searchingDocumentsFor :
          [kind |-> "update", bankIndex |-> b, status |-> "approved", glIndexes |-> <<>>]
              \in acknowledged']_vars

\* C25: a record whose rejection the service has answered ok keeps the
\* status rejected.
C25_RejectedStaysRejected ==
    [][\A i \in MatchIndexes :
          /\ Matches[i].status = "rejected"
          /\ [kind |-> "update", bankIndex |-> Matches[i].bank_index, status |-> "rejected",
              glIndexes |-> <<>>] \in acknowledged
          => /\ i <= Len(Matches')
             /\ Matches'[i].status = "rejected"]_vars

\* C26: updatingMatches holds the bank indexes of the status updates in
\* flight, one call for each, and a status update is started, or the modal
\* opened by a click on a row, only for a bank index that is not in it.
C26_UpdatingWhileInFlight ==
    /\ [](/\ updatingMatches = {req.bankIndex : req \in InFlight("update")}
          /\ \A req \in InFlight("update") :
                /\ CopiesIn(req, requests) = 1
                /\ \A other \in InFlight("update") :
                      other.bankIndex = req.bankIndex => other = req)
    /\ [][/\ \A status \in {"approved", "rejected"} :
              updateMatchStatus(status) =>
                  /\ selectedMatch.bankIndex \notin updatingMatches
                  /\ selectedMatch.bankIndex \in updatingMatches'
          /\ \A i \in 1..MaxBank :
              handleCellClick(i) => selectedMatch'.bankIndex \notin updatingMatches]_vars

\* the saves of two status updates are in flight
C26_Witness ==
    /\ Cardinality(updatingMatches) = 2
    /\ Cardinality(InFlight("update")) = 2

----------------------------------------------------------------------------
(* Manual matches *)

\* C23: createManualMatch leaves the match list as it is and sends the list
\* with one record appended (the selected bank index and ledger indexes,
\* approved, confidence 1.0); a saved call puts in the list it sent and
\* resets the selection; a failed call puts back the list it started from.
C23_ManualMatchSavedFirst ==
    [][/\ createManualMatch =>
              /\ Matches' = Matches
              /\ \E req \in InFlight("manual")' :
                    /\ req.originalSession = currentSession
                    /\ req.updatedSession.matches =
                          Append(Matches,
                                 [bank_index |-> selectedBankEntry,
                                  gl_indexes |-> selectedGlEntries,
                                  confidence |-> 100, status |-> "approved"])
      /\ \A req \in Awaiting :
              /\ createManualMatchSaved(req) =>
                    /\ Matches' = req.updatedSession.matches
                    /\ Len(Matches') = Len(req.originalSession.matches) + 1
                    /\ selectedBankEntry' = NoEntry /\ selectedGlEntries' = <<>>
              /\ createManualMatchFailed(req) =>
                    Matches' = req.originalSession.matches]_vars

\* a manual match has been saved and its record is the last of the list
C23_Witness ==
    /\ agentMessage = "manualCreated"
    /\ requests = EmptyBag
    /\ Len(Matches) > 0
    /\ Matches[Len(Matches)].status = "approved"
    /\ Matches[Len(Matches)].confidence = 100
    /\ selectedBankEntry = NoEntry

\* C29: ledger rows are selected only under a selected bank row, none of
\* them twice, and nothing is selected outside manual match mode.
C29_SelectionConsistent ==
    /\ Len(selectedGlEntries) > 0 => selectedBankEntry # NoEntry
    /\ NoRepeat(selectedGlEntries)
    /\ ~manualMatchMode => selectedBankEntry = NoEntry /\ selectedGlEntries = <<>>

\* two ledger rows are selected under a bank row, in the order of the clicks
C29_Witness ==
    /\ manualMatchMode
    /\ selectedBankEntry # NoEntry
    /\ selectedGlEntries = <<1, 0>>

----------------------------------------------------------------------------
(* The routes *)

\* the records of the session file
FileMatches == sessionFile.bank_matches

\* the session file holds a record for what the request asked for
Stored(a) ==
    \E i \in 1..Len(FileMatches) :
        /\ FileMatches[i].bank_index = a.bank_index
        /\ FileMatches[i].gl_indexes = a.gl_indexes

\* C24: the manual-match route never stores a second match for a bank
\* index, overlapping handlers included: the file holds at most one record
\* for a bank index, every request answered with success has its match in
\* the file, and a request is answered with success only when the file
\* holds no record for its bank index (otherwise the answer is 400)
C24_OneMatchPerBankIndex ==
    /\ [](\A i, j \in 1..Len(FileMatches) :
            FileMatches[i].bank_index = FileMatches[j].bank_index => i = j)
    /\ [](\A a \in answers : a.status = 200 => Stored(a))
    /\ [][\A h \in handlers :
            manualMatchWritten(h) => ~existingMatch(sessionFile, h.body.bank_index)]_vars

\* C30: a request to the documents route that is answered 400 has none of
\* its files written to the documents directory
C30_NothingWrittenOnRejection ==
    \A a \in answers : a.status = 400 => ~\E f \in documentsDir : f.id = a.id

----------------------------------------------------------------------------
(* The rejection queue in the end *)

\* the status of the item of an id, "none" while the queue has no such item
StatusOf(id) ==
    IF \E i \in 1..Len(rejectionQueue) : rejectionQueue[i].id = id
    THEN rejectionQueue[CHOOSE i \in 1..Len(rejectionQueue) :
                           rejectionQueue[i].id = id].status
    ELSE "none"

Unsettled == {"pending", "processing"}

\* C27: with every reject-document request answered, an item of the queue
\* that is pending or processing becomes completed or error, and from then
\* on is never pending or processing again; a completed item is removed
\* from the queue in the end; and isProcessingQueue, once set, is cleared
\* in the end
C27_QueueDrains ==
    /\ \A id \in 1..MaxRejections :
          /\ (StatusOf(id) \in Unsettled) ~> (StatusOf(id) \in {"completed", "error"})
          /\ (StatusOf(id) = "completed") ~> (StatusOf(id) = "none")
    /\ [][\A id \in 1..MaxRejections :
             /\ StatusOf(id) \in {"completed", "error"} => StatusOf(id)' \notin Unsettled
             /\ StatusOf(id) = "none" /\ id <= rejectionCount => StatusOf(id)' = "none"]_vars
    /\ isProcessingQueue ~> ~isProcessingQueue

\* the first rejection has completed and has been removed, the second has
\* failed and stays, and the queue is at rest
C27_Witness ==
    /\ rejectionCount >= 2
    /\ StatusOf(1) = "none" /\ StatusOf(2) = "error"
    /\ ~isProcessingQueue /\ processRuns = {} /\ removalTimers = 0

----------------------------------------------------------------------------
(* Documents of the matches *)

\* C28: whatever document searches, views and rejections have run and in
\* whatever order they were answered, a bank index is in
\* matchesWithDocuments only if documentsByMatch holds a list with at least
\* one document for it
C28_WithDocumentsHasDocuments ==
    \A b \in matchesWithDocuments : documentsByMatch[b] = "some"

====
